---- MODULE Spec2Model ----
(***************************************************************************)
(* Model of src/src/processing/data_chunking.py: the sliding-window       *)
(* splitter (sliding_window_chunk), the per-document orchestrator         *)
(* (process_documents) and the serialization projection (Chunk.to_dict,   *)
(* chunks_to_dicts).                                                       *)
(*                                                                         *)
(* A Python str is a sequence of one-character strings; offsets are the    *)
(* 0-based Python offsets.  None is the empty tuple and a present optional *)
(* value v is <<v>>.  A dict is a function from its keys.                  *)
(***************************************************************************)
EXTENDS Integers, Sequences, FiniteSets, TLC

\* Bounds of the explored inputs.
MaxLen == 4        \* longest text passed to sliding_window_chunk directly
MaxChunk == 3      \* largest chunk_size and overlap argument
MaxDocs == 2       \* longest list passed to process_documents

\* Besides every text of at most MaxLen characters over Chars, the longer
\* texts over LongChars are tried, with parameters up to LongChunk.
MaxLong == MaxLen + 3
LongChunk == MaxChunk + 3

\* Loop iterations are explored while fewer than MaxRecorded chunks are
\* recorded: a run that makes progress records at most one chunk per
\* character, so only runs that stopped advancing are cut short.
MaxRecorded == MaxLong + 1

Chars == {"a", " ", "\n", ".", "?", "!"}
LongChars == {"a", "\n"}
Whitespace == {" ", "\n"}

Texts == UNION {[1..n -> Chars] : n \in 0..MaxLen}
LongTexts == UNION {[1..n -> LongChars] : n \in (MaxLen + 1)..MaxLong}

None == <<>>
Some(v) == <<v>>

Min(a, b) == IF a <= b THEN a ELSE b

-----------------------------------------------------------------------------
(* Python str primitives used by the splitter *)

\* A slice bound as Python normalises it: negative bounds count from the end
\* and everything is clamped to 0..n.
SliceIndex(i, n) ==
    IF i < 0 THEN (IF i + n < 0 THEN 0 ELSE i + n)
    ELSE IF i > n THEN n ELSE i

\* s[i:j]
Slice(s, i, j) ==
    LET a == SliceIndex(i, Len(s))
        b == SliceIndex(j, Len(s))
    IN  IF a >= b THEN <<>> ELSE SubSeq(s, a + 1, b)

\* The scan of str.rfind: the highest offset i in lo..hi at which sub occurs.
RECURSIVE rscan(_, _, _, _)
rscan(s, sub, lo, i) ==
    IF i < lo THEN -1
    ELSE IF SubSeq(s, i + 1, i + Len(sub)) = sub THEN i
    ELSE rscan(s, sub, lo, i - 1)

\* s.rfind(sub, start, end): sub must lie wholly inside s[start:end].
rfind(s, sub, start, end) ==
    LET a == SliceIndex(start, Len(s))
        b == SliceIndex(end, Len(s))
    IN  rscan(s, sub, a, b - Len(sub))

RECURSIVE lstrip(_)
lstrip(s) ==
    IF s # <<>> /\ Head(s) \in Whitespace THEN lstrip(Tail(s)) ELSE s

RECURSIVE rstrip(_)
rstrip(s) ==
    IF s # <<>> /\ s[Len(s)] \in Whitespace
    THEN rstrip(SubSeq(s, 1, Len(s) - 1)) ELSE s

\* s.strip()
strip(s) == rstrip(lstrip(s))

-----------------------------------------------------------------------------
(* sliding_window_chunk: the pure parts of one call *)

\* Mutant: the overlap check lets overlap = chunk_size through.
InvalidParameters_Strict(cs, ov) == cs <= 0 \/ ov < 0 \/ ov > cs

\* The parameter check at the head of sliding_window_chunk.
InvalidParameters(cs, ov) == cs <= 0 \/ ov < 0 \/ ov >= cs

\* `not text or not text.strip()`
IsBlank(t) == t = <<>> \/ strip(t) = <<>>

ParagraphBreak == <<"\n", "\n">>
LineBreak == <<"\n">>
Puncts == <<(<<".", " ">>), (<<"?", " ">>), (<<"!", " ">>)>>

\* Mutant: the naive end lies one character too far.
NaiveEnd_OffByOne(s, cs, n) == Min(s + cs + 1, n)

\* The naive window end.
NaiveEnd(s, cs, n) == Min(s + cs, n)

\* The `for punct in [...]` loop from its k-th pattern on; bp0 is the value
\* break_point holds when the loop is entered.
RECURSIVE SentenceBreak(_, _, _, _, _)
SentenceBreak(t, s, e, bp0, k) ==
    IF k > Len(Puncts) THEN bp0
    ELSE LET bp == rfind(t, Puncts[k], s, e)
         IN  IF bp > s THEN bp + 1 ELSE SentenceBreak(t, s, e, bp0, k + 1)

\* The value of break_point after the three searches.
BreakPoint(t, s, e) ==
    LET bp1 == rfind(t, ParagraphBreak, s, e)
        bp2 == IF bp1 = -1 \/ bp1 <= s THEN rfind(t, LineBreak, s, e) ELSE bp1
    IN  IF bp2 = -1 \/ bp2 <= s THEN SentenceBreak(t, s, e, bp2, 1) ELSE bp2

\* The value of `end` when the window is sliced.
WindowEnd(t, s, cs) ==
    LET e == NaiveEnd(s, cs, Len(t))
    IN  IF e < Len(t)
        THEN LET bp == BreakPoint(t, s, e) IN IF bp > s THEN bp ELSE e
        ELSE e

\* Mutant: the advance forgets the overlap.
NextStart_NoOverlap(e, ov, n) == IF e < n THEN e ELSE n

\* Mutant: the advance adds the overlap instead of subtracting it.
NextStart_SignSlip(e, ov, n) == IF e < n THEN e + ov ELSE n

\* The cursor of the next iteration.
NextStart(e, ov, n) == IF e < n THEN e - ov ELSE n

\* The raw chunk dict appended for a non-empty window.
RawChunk(content, s, e, idx) ==
    [content |-> content, start_char |-> s, end_char |-> e, chunk_index |-> idx]

\* Mutant: chunk_index is also consumed by a dropped window.
NextChunkIndex_Always(idx, content) == idx + 1

\* chunk_index after the window has been handled.
NextChunkIndex(idx, content) == IF content # <<>> THEN idx + 1 ELSE idx

-----------------------------------------------------------------------------
(* Documents, Chunk and its projection *)

KnownFields == {"content", "filename", "title"}

\* doc.get(k, default)
Get(doc, k, default) == IF k \in DOMAIN doc THEN doc[k] ELSE default

\* doc.get('title'): None when absent
GetOptional(doc, k) == IF k \in DOMAIN doc THEN Some(doc[k]) ELSE None

\* The remaining frontmatter of a document.
Metadata(doc) == [k \in (DOMAIN doc) \ KnownFields |-> doc[k]]

\* `metadata if metadata else None`
MetadataOrNone(m) == IF DOMAIN m # {} THEN Some(m) ELSE None

\* The Chunk built from one raw chunk of a document.
Chunk(raw, filename, title, metadata) ==
    [content |-> raw.content, start_char |-> raw.start_char,
     end_char |-> raw.end_char, chunk_index |-> raw.chunk_index,
     filename |-> filename, title |-> title, metadata |-> metadata]

\* dict.update
Update(d, m) ==
    [k \in (DOMAIN d) \cup (DOMAIN m) |-> IF k \in DOMAIN m THEN m[k] ELSE d[k]]

\* del d[k]
Del(d, k) == [j \in (DOMAIN d) \ {k} |-> d[j]]

\* `if self.metadata:`: neither None nor an empty dict
Truthy(metadata) == Len(metadata) > 0 /\ DOMAIN metadata[1] # {}

\* Chunk.to_dict; dataclasses.asdict gives the record of the seven fields.
to_dict(c) ==
    IF Truthy(c.metadata)
    THEN Del(Update(c, c.metadata[1]), "metadata")
    ELSE c

\* The documents tried: full frontmatter, bare, missing content, empty and
\* whitespace-only content, and frontmatter keys that collide with Chunk
\* fields.
DocPool == <<
    [content |-> <<"a", "\n", "b", " ", "c">>, filename |-> "a.md",
     title |-> "T", tags |-> "x"],
    [content |-> <<"a", "b">>, filename |-> "b.md"],
    [filename |-> "c.md", tags |-> "y"],
    [content |-> <<>>, filename |-> "d.md"],
    [content |-> <<" ", "\n">>, filename |-> "e.md", title |-> "W"],
    [content |-> <<"a", " ", " ", "b">>, metadata |-> "m", chunk_index |-> 7]
>>

DocLists ==
    UNION {[1..n -> 1..Len(DocPool)] : n \in 0..MaxDocs}

-----------------------------------------------------------------------------
VARIABLES
    caller,        \* "direct": sliding_window_chunk is the entry point;
                   \* "process": process_documents is
    pc,            \* position of the running call
    documents,     \* process_documents: its argument
    doc_i,         \* process_documents: documents already handled
    all_chunks,    \* process_documents: the Chunk list built so far
    dicts,         \* chunks_to_dicts: its result
    text, chunk_size, overlap,          \* sliding_window_chunk: arguments
    start, end, chunk_content,          \* sliding_window_chunk: locals
    chunk_index, chunks

vars == <<caller, pc, documents, doc_i, all_chunks, dicts, text, chunk_size,
          overlap, start, end, chunk_content, chunk_index, chunks>>

splitter == <<text, start, end, chunk_content, chunk_index, chunks>>
docvars == <<documents, doc_i, all_chunks, dicts>>
params == <<caller, chunk_size, overlap>>

text_length == Len(text)

\* Locals of sliding_window_chunk are unbound until assigned; they are never
\* read before that, and the model holds 0 / empty for them meanwhile.
Unbound == start = 0 /\ end = 0 /\ chunk_content = <<>> /\ chunk_index = 0
           /\ chunks = <<>>

Init ==
    /\ Unbound
    /\ all_chunks = <<>>
    /\ dicts = <<>>
    /\ doc_i = 0
    /\ \/ /\ caller = "direct"
          /\ pc = "call"
          /\ text \in Texts
          /\ chunk_size \in (-1)..MaxChunk
          /\ overlap \in (-1)..MaxChunk
          /\ documents = <<>>
       \/ /\ caller = "direct"
          /\ pc = "call"
          /\ text \in LongTexts
          /\ chunk_size \in 0..LongChunk
          /\ overlap \in 0..LongChunk
          /\ documents = <<>>
       \/ /\ caller = "process"
          /\ pc = "docs"
          /\ text = <<>>
          /\ chunk_size \in (-1)..MaxChunk
          /\ overlap \in (-1)..MaxChunk
          /\ \E ix \in DocLists : documents = [i \in DOMAIN ix |-> DocPool[ix[i]]]

-----------------------------------------------------------------------------
(* sliding_window_chunk *)

\* Lines 50-53: the parameter check, made before the text is looked at.
Validate ==
    /\ pc = "call"
    /\ pc' = IF InvalidParameters(chunk_size, overlap) THEN "raised" ELSE "validated"
    /\ UNCHANGED <<params, docvars, splitter>>

\* Lines 55-61: blank text returns []; otherwise the locals are set up.
CheckBlank ==
    /\ pc = "validated"
    /\ pc' = IF IsBlank(text) THEN "returned" ELSE "loop"
    /\ start' = 0
    /\ chunk_index' = 0
    /\ chunks' = <<>>
    /\ UNCHANGED <<params, docvars, text, end, chunk_content>>

\* Lines 63-95: one iteration of the while loop.
LoopBody ==
    /\ pc = "loop"
    /\ start < text_length
    /\ Len(chunks) < MaxRecorded
    /\ LET e == WindowEnd(text, start, chunk_size)
           content == strip(Slice(text, start, e))
       IN  /\ end' = e
           /\ chunk_content' = content
           /\ chunks' = IF content # <<>>
                        THEN Append(chunks, RawChunk(content, start, e, chunk_index))
                        ELSE chunks
           /\ chunk_index' = NextChunkIndex(chunk_index, content)
           /\ start' = NextStart(e, overlap, text_length)
    /\ UNCHANGED <<params, docvars, pc, text>>

\* Line 97: the loop condition fails and chunks is returned.
Return ==
    /\ pc = "loop"
    /\ ~(start < text_length)
    /\ pc' = "returned"
    /\ UNCHANGED <<params, docvars, splitter>>

-----------------------------------------------------------------------------
(* process_documents and chunks_to_dicts *)

doc == documents[doc_i + 1]

\* Lines 121-123: a document without content is skipped.
SkipDocument ==
    /\ pc = "docs"
    /\ doc_i < Len(documents)
    /\ Get(doc, "content", <<>>) = <<>>
    /\ doc_i' = doc_i + 1
    /\ UNCHANGED <<params, pc, documents, all_chunks, dicts, splitter>>

\* Line 136: the splitter is called on the document's content.
CallSplitter ==
    /\ pc = "docs"
    /\ doc_i < Len(documents)
    /\ Get(doc, "content", <<>>) # <<>>
    /\ text' = doc["content"]
    /\ start' = 0 /\ end' = 0 /\ chunk_content' = <<>>
    /\ chunk_index' = 0 /\ chunks' = <<>>
    /\ pc' = "call"
    /\ UNCHANGED <<params, docvars>>

\* Lines 126-133 and 138-148: the returned raw chunks become Chunks.
CollectChunks ==
    /\ caller = "process"
    /\ pc = "returned"
    /\ LET filename == Get(doc, "filename", "unknown")
           title == GetOptional(doc, "title")
           metadata == MetadataOrNone(Metadata(doc))
       IN  all_chunks' = all_chunks \o
               [i \in 1..Len(chunks) |-> Chunk(chunks[i], filename, title, metadata)]
    /\ doc_i' = doc_i + 1
    /\ pc' = "docs"
    /\ UNCHANGED <<params, documents, dicts, splitter>>

\* Line 150: every document handled.
ProcessReturn ==
    /\ pc = "docs"
    /\ doc_i = Len(documents)
    /\ pc' = "done"
    /\ UNCHANGED <<params, docvars, splitter>>

\* Lines 153-155: chunks_to_dicts on the list process_documents returned.
ChunksToDicts ==
    /\ pc = "done"
    /\ dicts' = [i \in 1..Len(all_chunks) |-> to_dict(all_chunks[i])]
    /\ pc' = "serialized"
    /\ UNCHANGED <<params, documents, doc_i, all_chunks, splitter>>

Next ==
    \/ Validate
    \/ CheckBlank
    \/ LoopBody
    \/ Return
    \/ SkipDocument
    \/ CallSplitter
    \/ CollectChunks
    \/ ProcessReturn
    \/ ChunksToDicts

Spec == Init /\ [][Next]_vars

-----------------------------------------------------------------------------
(* Properties *)

InSplitter == pc \in {"validated", "loop", "returned"}

\* A step that runs one iteration of the while loop.
IsLoopStep == pc = "loop" /\ pc' = "loop"

Last(q) == q[Len(q)]

Max(S) == CHOOSE x \in S : \A y \in S : y <= x

\* C1: with valid parameters the cursor `start` strictly increases from each
\* loop iteration to the next, so the loop ends after finitely many of them.
CE_C1 == [][IsLoopStep => start' > start]_vars

AllWhitespace == \A p \in 1..Len(text) : text[p] \in Whitespace

WindowsChain ==
    /\ (pc = "validated" /\ pc' = "loop") => start' = 0
    /\ IsLoopStep =>
          /\ start < end'
          /\ start' <= end'
          /\ end' <= text_length
          /\ chunks' # chunks =>
                /\ Last(chunks').start_char = start
                /\ Last(chunks').end_char = end'

CE_C3 ==
    \A i \in 1..(Len(chunks) - 1) :
        chunks[i].start_char < chunks[i + 1].start_char

\* C4: every recorded chunk spans at most chunk_size characters, whether it
\* ends at a natural break or at the hard cut, and its trimmed content is no
\* longer than chunk_size.
Thm_C4 ==
    \A i \in 1..Len(chunks) :
        /\ chunks[i].end_char - chunks[i].start_char <= chunk_size
        /\ Len(chunks[i].content) <= chunk_size

\* A run that recorded a chunk closed at a natural break before the naive
\* end, and then a hard-cut chunk in mid-text whose content was trimmed.
Witness_C4 ==
    /\ Len(chunks) >= 2
    /\ \E i, j \in 1..Len(chunks) :
          /\ i < j
          /\ chunks[i].end_char - chunks[i].start_char < chunk_size
          /\ chunks[i].end_char < text_length
          /\ chunks[j].end_char - chunks[j].start_char = chunk_size
          /\ chunks[j].end_char < text_length
          /\ Len(chunks[j].content) < chunk_size

\* C5: the chunk_index values of one document are 0, 1, ..., n-1 in order,
\* also when whitespace-only windows were dropped, and every batch that
\* process_documents appends for a document is numbered from 0.
IndexesInOrder == \A i \in 1..Len(chunks) : chunks[i].chunk_index = i - 1

RestartsPerDocument ==
    Len(all_chunks') > Len(all_chunks) =>
        /\ doc_i' = doc_i + 1
        /\ \A k \in 1..(Len(all_chunks') - Len(all_chunks)) :
              all_chunks'[Len(all_chunks) + k].chunk_index = k - 1

Thm_C5 == [](IndexesInOrder /\ chunk_index = Len(chunks))
          /\ [][RestartsPerDocument]_vars

\* process_documents returned the chunks of two documents; in the first a
\* whitespace-only window was dropped between chunk 0 and chunk 1, and the
\* second starts again at 0.
Witness_C5 ==
    /\ pc = "done"
    /\ Len(all_chunks) >= 3
    /\ all_chunks[1].chunk_index = 0
    /\ all_chunks[2].chunk_index = 1
    /\ all_chunks[2].start_char > all_chunks[1].end_char
    /\ all_chunks[3].chunk_index = 0

\* C6: sliding_window_chunk raises exactly when chunk_size <= 0 or
\* overlap < 0 or overlap >= chunk_size, whatever the text is, and then no
\* window has been produced; with valid parameters it does not raise.
Thm_C6 ==
    LET bad == chunk_size <= 0 \/ overlap < 0 \/ overlap >= chunk_size
    IN  /\ InSplitter => ~bad
        /\ pc = "raised" => bad /\ chunks = <<>> /\ chunk_index = 0

\* The call raised on a whitespace-only text with overlap = chunk_size.
Witness_C6 ==
    /\ pc = "raised"
    /\ text # <<>>
    /\ strip(text) = <<>>
    /\ chunk_size > 0
    /\ overlap = chunk_size

\* C7: to_dict of a chunk whose metadata is None has exactly the six keys
\* content, start_char, end_char, chunk_index, filename, title; with
\* non-empty metadata it has those six plus the metadata keys.
SixKeys ==
    {"content", "start_char", "end_char", "chunk_index", "filename", "title"}

CE_C7 ==
    pc = "serialized" =>
        \A i \in 1..Len(all_chunks) :
            DOMAIN dicts[i] =
                IF all_chunks[i].metadata = None THEN SixKeys
                ELSE SixKeys \cup DOMAIN all_chunks[i].metadata[1]

\* C8: the window end of an iteration whose naive end e lies before the end
\* of the text is the rightmost paragraph break in [start, e) if it lies
\* after start, else the rightmost newline if it lies after start, else one
\* past the rightmost occurrence of the first of ". ", "? ", "! " that
\* occurs after start, else e; at the end of the text it is len(text).
Occurrences(t, sub, s, e) ==
    {p \in s..(e - Len(sub)) :
        p >= 0 /\ p + Len(sub) <= Len(t) /\ SubSeq(t, p + 1, p + Len(sub)) = sub}

HasBreak(t, sub, s, e) ==
    Occurrences(t, sub, s, e) # {} /\ Max(Occurrences(t, sub, s, e)) > s

ClaimedEnd(t, s, cs) ==
    LET e == s + cs
        hit == {k \in 1..Len(Puncts) : HasBreak(t, Puncts[k], s, e)}
    IN  IF e >= Len(t) THEN Len(t)
        ELSE IF HasBreak(t, ParagraphBreak, s, e)
             THEN Max(Occurrences(t, ParagraphBreak, s, e))
        ELSE IF HasBreak(t, LineBreak, s, e)
             THEN Max(Occurrences(t, LineBreak, s, e))
        ELSE IF hit # {}
             THEN Max(Occurrences(t, Puncts[CHOOSE k \in hit : \A j \in hit : k <= j], s, e)) + 1
        ELSE e

CE_C8 == [][IsLoopStep => end' = ClaimedEnd(text, start, chunk_size)]_vars

\* C9: every chunk after the first starts exactly overlap characters before
\* the previous chunk ended, and only the last chunk ends at len(text).
CE_C9 ==
    \A i \in 1..(Len(chunks) - 1) :
        /\ chunks[i + 1].start_char = chunks[i].end_char - overlap
        /\ chunks[i].end_char # text_length

\* C9, amended: each iteration that ends before len(text) moves the cursor
\* to end - overlap, so two chunks recorded by consecutive iterations
\* satisfy start_char(i+1) = end_char(i) - overlap; a chunk that ends at
\* len(text) is the last one.
ConsecutiveWindows ==
    IsLoopStep =>
        /\ start' = IF end' < text_length THEN end' - overlap ELSE text_length
        /\ (chunk_content # <<>> /\ chunk_content' # <<>>) =>
              /\ Len(chunks') = Len(chunks) + 1
              /\ Last(chunks).end_char = end
              /\ Last(chunks').start_char = Last(chunks).end_char - overlap

Thm_C9 ==
    /\ [](\A i \in 1..(Len(chunks) - 1) : chunks[i].end_char < text_length)
    /\ [][ConsecutiveWindows]_vars

\* The call returned two chunks recorded by consecutive iterations, the
\* second starting overlap >= 1 characters before the first ended.
Witness_C9 ==
    /\ pc = "returned"
    /\ overlap >= 1
    /\ Len(chunks) = 2
    /\ chunks[2].start_char = chunks[1].end_char - overlap
    /\ chunks[2].start_char > chunks[1].start_char
    /\ chunks[2].end_char = text_length

\* C10: the cursor never becomes negative and every recorded chunk
\* satisfies 0 <= start_char < end_char <= len(text).
CE_C10 ==
    InSplitter =>
        /\ 0 <= start
        /\ \A i \in 1..Len(chunks) :
              /\ 0 <= chunks[i].start_char
              /\ chunks[i].start_char < chunks[i].end_char
              /\ chunks[i].end_char <= text_length

====
